---- MODULE Spec2Model ----
(***************************************************************************)
(* Model of main.py: a Telegram bot that downloads a photo, checks its     *)
(* format, uploads it to ImgBB, asks the OpenAI vision endpoint what is in *)
(* it and replies with the answer.                                         *)
(*                                                                         *)
(* Every inbound message m has a call frame fr[m].  The frame holds the    *)
(* handler's position (pc), its local variables (file_data, image_url,     *)
(* analysis_result, attempt) and a log of the external calls the handler   *)
(* has made, in order.  The outcomes of external calls (Telegram, PIL,     *)
(* ImgBB, OpenAI) are inputs, drawn from small sets.                       *)
(*                                                                         *)
(* Python values: a string over the model's characters is a sequence of    *)
(* characters; None is <<>> and any other optional value x is <<x>>.       *)
(***************************************************************************)
EXTENDS Integers, Sequences, FiniteSets, TLC

VARIABLES fr, queue, received

vars == <<fr, queue, received>>

-----------------------------------------------------------------------------
(* Bounds of the model *)

MaxMsgs == 3        \* messages the polling loop receives in one run
MaxRetries == 3     \* largest `retries` a direct call of the analyzer is given
MaxDelay == 2       \* largest `delay` a direct call of the analyzer is given
MaxTextLen == 2     \* longest text the model endpoint returns

(* Program constants *)

DefaultRetries == 3   \* analyze_image_openai(image_url, retries=3, ...)
DefaultDelay == 2     \* analyze_image_openai(image_url, ..., delay=2)
NumThreads == 2       \* telebot.TeleBot(token): threaded=True, num_threads=2
HTTP_OK == 200        \* if response.status_code == 200

Msgs == 1..MaxMsgs

-----------------------------------------------------------------------------
(* Python values *)

None == <<>>
Some(x) == <<x>>

Chars == {" ", "a"}
Whitespace == {" "}

Strings(n) == UNION {[1..k -> Chars] : k \in 0..n}

Texts == Strings(MaxTextLen)

RECURSIVE LStrip(_)
LStrip(s) == IF s # <<>> /\ Head(s) \in Whitespace THEN LStrip(Tail(s)) ELSE s

RECURSIVE RStrip(_)
RStrip(s) ==
    IF s # <<>> /\ s[Len(s)] \in Whitespace
    THEN RStrip(SubSeq(s, 1, Len(s) - 1))
    ELSE s

(* str.strip() *)
Strip(s) == RStrip(LStrip(s))

(* Truth value of an optional string held as a sequence of characters:     *)
(* None and the empty string are false.                                    *)
Truthy(v) == v # None /\ v[1] # <<>>

(* Truth value of an optional URL (a TLA+ string).                         *)
TruthyUrl(v) == v # None /\ v[1] # ""

-----------------------------------------------------------------------------
(* The fixed reply texts.  A reply text is a sequence: a fixed text is one *)
(* token, the success reply is the label followed by the characters of the *)
(* analysis text.                                                          *)

MsgFormatFail == "Failed to process the image format."
MsgUploadFail == "Failed to upload image to ImgBB."
MsgAnalysisFail == "Failed to analyze image using OpenAI Vision API."
MsgGeneric == "Failed to process the image."
MsgLabel == "Image analysis result:\n"
MsgStart == "Send me an image (JPG or WebP), and I'll analyze it for you."

SuccessText(analysis_result) == <<MsgLabel>> \o analysis_result

-----------------------------------------------------------------------------
(* PIL: the byte buffers a download can yield.  Image.open is lazy: it     *)
(* identifies the file from its header and raises for bytes that are no    *)
(* image ("garbage"); the pixel data is decoded by convert/save, which     *)
(* raise for a buffer whose data is truncated or corrupt ("_trunc").       *)
(* "jpeg" is the buffer handle_photo re-encodes from a WEBP image.         *)

Buffers == {"garbage", "webp", "webp_trunc", "png", "png_trunc"}

OpenOk(b) == b # "garbage"
ImageFormat(b) == IF b \in {"webp", "webp_trunc"} THEN "WEBP"
                  ELSE IF b = "jpeg" THEN "JPEG" ELSE "PNG"
LoadOk(b) == b \in {"webp", "png", "jpeg"}

-----------------------------------------------------------------------------
(* ImgBB: what one POST to https://api.imgbb.com/1/upload can yield: a     *)
(* network-level exception, or a response with a status code and a body    *)
(* that is not JSON, JSON without data.url, or JSON with data.url.         *)

Urls == {"https://x/y.jpg", "https://x/z.jpg", ""}

HostResponses ==
    {[net |-> "error"]}
    \cup {[net |-> "ok", status |-> 400, json |-> <<"badjson">>]}
    \cup {[net |-> "ok", status |-> HTTP_OK, json |-> j] :
            j \in {<<"badjson">>, <<"nofield">>} \cup {<<"url", u>> : u \in Urls}}

(* The `posts` POSTs the uploader issues, as log events.                   *)
PostEvents(posts, resp) == [i \in 1..posts |-> <<"post", resp>>]

UploadRetryOnce(file_data, resp) ==
    IF ~(OpenOk(file_data) /\ LoadOk(file_data))
    THEN [url |-> None, posts |-> 0]
    ELSE IF resp.net = "ok" /\ resp.status = HTTP_OK /\ resp.json[1] = "url"
         THEN [url |-> Some(resp.json[2]), posts |-> 1]
         ELSE [url |-> None, posts |-> 2]

(* upload_image_to_imgbb(file_data) against a host that answers resp: the  *)
(* value returned and the number of POSTs issued.  Every exception raised  *)
(* in the body (decoding, re-encoding, the POST, response.json(), the      *)
(* lookup of ['data']['url']) is caught and None is returned.              *)
upload_image_to_imgbb(file_data, resp) ==
    IF ~(OpenOk(file_data) /\ LoadOk(file_data))
    THEN [url |-> None, posts |-> 0]
    ELSE IF resp.net = "error"
         THEN [url |-> None, posts |-> 1]
         ELSE IF resp.status = HTTP_OK
              THEN IF resp.json[1] = "url"
                   THEN [url |-> Some(resp.json[2]), posts |-> 1]
                   ELSE [url |-> None, posts |-> 1]
              ELSE [url |-> None, posts |-> 1]

-----------------------------------------------------------------------------
(* OpenAI: what one call of client.chat.completions.create can yield: an   *)
(* exception, a response whose first choice has no text (the extraction    *)
(* response.choices[0].message.content.strip() raises), or a text.         *)

EndpointOutcomes == {<<"raise">>, <<"malformed">>} \cup {<<"text", t>> : t \in Texts}

InRangeInclusive(attempt, retries) == attempt <= retries

(* for attempt in range(retries): is there an iteration numbered attempt   *)
InRange(attempt, retries) == attempt < retries

ShouldSleepAlways(attempt, retries) == attempt < retries

(* if attempt < retries - 1: sleep and retry, else give up                 *)
ShouldSleep(attempt, retries) == attempt < retries - 1

-----------------------------------------------------------------------------
(* Call frames *)

Blank(pc) ==
    [pc |-> pc, kind |-> "none", raw |-> "none", file_data |-> "none",
     image_url |-> None, analysis_result |-> None,
     attempt |-> 0, retries |-> 0, delay |-> 0, traced |-> FALSE, log |-> <<>>]

(* The log is a history variable: the external calls a frame has made, in  *)
(* order.  It is kept for the frames that are marked traced.               *)
LoggedAll(f, es) == IF f.traced THEN [f EXCEPT !.log = @ \o es] ELSE f

Logged(f, e) == LoggedAll(f, <<e>>)

(* bot.reply_to(message, text) called from the frame f: the call returns   *)
(* (ok) and the handler returns, or it raises and control goes to pcRaise. *)
ReplyTo(f, text, ok, pcRaise) ==
    [Logged(f, <<"reply", text, ok>>) EXCEPT !.pc = IF ok THEN "returned" ELSE pcRaise]

(* The worker threads that are running a task *)
Busy == {m \in Msgs : fr[m].pc \notin {"absent", "queued", "finished"}}

PoolUnbounded == TRUE

(* bot = telebot.TeleBot(token) takes the library's defaults: a threaded   *)
(* bot whose worker pool has NumThreads threads.  polling() puts each      *)
(* handler call on the pool's queue; a queued task starts when a worker    *)
(* thread is free.                                                         *)
PoolHasFreeWorker == Cardinality(Busy) < NumThreads

-----------------------------------------------------------------------------
(* bot.polling(): the polling thread receives the next message and puts    *)
(* the matching handler's task on the worker pool's queue.                 *)
Receive ==
    /\ received < MaxMsgs
    /\ \E kind \in {"photo", "command"} :
          /\ fr' = [fr EXCEPT ![received + 1] = [Blank("queued") EXCEPT !.kind = kind]]
          /\ queue' = Append(queue, received + 1)
          /\ received' = received + 1

(* A free worker thread takes the oldest task and enters its handler.      *)
StartHandler ==
    /\ queue # <<>>
    /\ PoolHasFreeWorker
    /\ LET m == Head(queue) IN
          fr' = [fr EXCEPT ![m].pc = IF fr[m].kind = "photo" THEN "download" ELSE "start"]
    /\ queue' = Tail(queue)
    /\ UNCHANGED received

(* The handler has returned or raised: the worker thread is free again and *)
(* the frame is gone.                                                      *)
Finish(m) ==
    /\ fr[m].pc \in {"returned", "raised"}
    /\ fr' = [fr EXCEPT ![m] = Blank("finished")]
    /\ UNCHANGED <<queue, received>>

(* start(message) *)
StartCommand(m) ==
    /\ fr[m].pc = "start"
    /\ \E ok \in BOOLEAN :
          fr' = [fr EXCEPT ![m] = ReplyTo(@, <<MsgStart>>, ok, "raised")]
    /\ UNCHANGED <<queue, received>>

-----------------------------------------------------------------------------
(* handle_photo(message) *)

(* file_info = bot.get_file(...); file_data = bot.download_file(...)       *)
Download(m) ==
    /\ fr[m].pc = "download"
    /\ \/ \E b \in Buffers :
             fr' = [fr EXCEPT ![m] =
                      [Logged(@, <<"download", TRUE>>) EXCEPT
                          !.raw = b, !.file_data = b, !.pc = "format"]]
       \/ fr' = [fr EXCEPT ![m] =
                      [Logged(@, <<"download", FALSE>>) EXCEPT !.pc = "except"]]
    /\ UNCHANGED <<queue, received>>

FormatCheckNoReturn(m) ==
    /\ fr[m].pc = "format"
    /\ LET b == fr[m].file_data
           decodes == OpenOk(b) /\ (ImageFormat(b) = "WEBP" => LoadOk(b))
       IN  IF decodes
           THEN fr' = [fr EXCEPT ![m] =
                         [Logged(@, <<"format", TRUE>>) EXCEPT
                             !.file_data = IF ImageFormat(b) = "WEBP" THEN "jpeg" ELSE b,
                             !.pc = "upload"]]
           ELSE \E ok \in BOOLEAN :
                   fr' = [fr EXCEPT ![m] =
                            [ReplyTo(Logged(@, <<"format", FALSE>>),
                                     <<MsgFormatFail>>, ok, "except")
                             EXCEPT !.pc = IF ok THEN "upload" ELSE "except"]]
    /\ UNCHANGED <<queue, received>>

(* The inner try: Image.open, and for a WEBP image convert and save as     *)
(* JPEG; on an exception reply with the format-failure text and return.    *)
FormatCheck(m) ==
    /\ fr[m].pc = "format"
    /\ LET b == fr[m].file_data
           decodes == OpenOk(b) /\ (ImageFormat(b) = "WEBP" => LoadOk(b))
       IN  IF decodes
           THEN fr' = [fr EXCEPT ![m] =
                         [Logged(@, <<"format", TRUE>>) EXCEPT
                             !.file_data = IF ImageFormat(b) = "WEBP" THEN "jpeg" ELSE b,
                             !.pc = "upload"]]
           ELSE \E ok \in BOOLEAN :
                   fr' = [fr EXCEPT ![m] =
                            ReplyTo(Logged(@, <<"format", FALSE>>),
                                    <<MsgFormatFail>>, ok, "except")]
    /\ UNCHANGED <<queue, received>>

(* image_url = upload_image_to_imgbb(file_data); if not image_url: reply   *)
(* with the upload-failure text and return; else call the analyzer.        *)
Upload(m) ==
    /\ fr[m].pc = "upload"
    /\ \E resp \in HostResponses, ok \in BOOLEAN :
          LET r == upload_image_to_imgbb(fr[m].file_data, resp)
              f == [LoggedAll(fr[m], <<<<"upload", fr[m].file_data>>>>
                                          \o PostEvents(r.posts, resp))
                      EXCEPT !.image_url = r.url]
          IN  IF ~TruthyUrl(r.url)
              THEN fr' = [fr EXCEPT ![m] = ReplyTo(f, <<MsgUploadFail>>, ok, "except")]
              ELSE fr' = [fr EXCEPT ![m] =
                            [Logged(f, <<"analyze", r.url[1]>>) EXCEPT
                                !.attempt = 0, !.retries = DefaultRetries,
                                !.delay = DefaultDelay, !.pc = "an_loop"]]
    /\ UNCHANGED <<queue, received>>

(* analyze_image_openai: the head of the for loop                          *)
AnalyzeLoop(m) ==
    /\ fr[m].pc = "an_loop"
    /\ fr' = [fr EXCEPT ![m] =
                IF InRange(fr[m].attempt, fr[m].retries)
                THEN [@ EXCEPT !.pc = "an_call"]
                ELSE [@ EXCEPT !.analysis_result = None, !.pc = "an_ret"]]
    /\ UNCHANGED <<queue, received>>

(* analyze_image_openai: one attempt, the try and its except               *)
AnalyzeCall(m) ==
    /\ fr[m].pc = "an_call"
    /\ \E out \in EndpointOutcomes :
          LET f == Logged(fr[m], <<"call", fr[m].image_url[1], out>>)
          IN  fr' = [fr EXCEPT ![m] =
                IF out[1] = "text"
                THEN [f EXCEPT !.analysis_result = Some(Strip(out[2])), !.pc = "an_ret"]
                ELSE IF ShouldSleep(f.attempt, f.retries)
                     THEN [f EXCEPT !.pc = "an_sleep"]
                     ELSE [f EXCEPT !.analysis_result = None, !.pc = "an_ret"]]
    /\ UNCHANGED <<queue, received>>

(* analyze_image_openai: time.sleep(delay), then the next iteration        *)
AnalyzeSleep(m) ==
    /\ fr[m].pc = "an_sleep"
    /\ fr' = [fr EXCEPT ![m] =
                [Logged(@, <<"sleep", fr[m].delay>>) EXCEPT
                    !.attempt = @ + 1, !.pc = "an_loop"]]
    /\ UNCHANGED <<queue, received>>

(* if analysis_result: reply with the labelled result, else reply with the *)
(* analysis-failure text.                                                  *)
HandleResult(m) ==
    /\ fr[m].pc = "an_ret"
    /\ \E ok \in BOOLEAN :
          fr' = [fr EXCEPT ![m] =
                   IF Truthy(fr[m].analysis_result)
                   THEN ReplyTo(@, SuccessText(fr[m].analysis_result[1]), ok, "except")
                   ELSE ReplyTo(@, <<MsgAnalysisFail>>, ok, "except")]
    /\ UNCHANGED <<queue, received>>

GenericReplySilent(m) ==
    /\ fr[m].pc = "except"
    /\ fr' = [fr EXCEPT ![m].pc = "returned"]
    /\ UNCHANGED <<queue, received>>

(* The outer except: reply with the generic failure text.  An exception of *)
(* this reply_to is raised to the caller of handle_photo.                  *)
GenericReply(m) ==
    /\ fr[m].pc = "except"
    /\ \E ok \in BOOLEAN :
          fr' = [fr EXCEPT ![m] = ReplyTo(@, <<MsgGeneric>>, ok, "raised")]
    /\ UNCHANGED <<queue, received>>

-----------------------------------------------------------------------------
(* The bot: polling thread and worker pool *)

Init ==
    /\ fr = [m \in Msgs |-> Blank("absent")]
    /\ queue = <<>>
    /\ received = 0

Next ==
    \/ Receive
    \/ StartHandler
    \/ \E m \in Msgs : StartCommand(m)
    \/ \E m \in Msgs : Download(m)
    \/ \E m \in Msgs : FormatCheck(m)
    \/ \E m \in Msgs : Upload(m)
    \/ \E m \in Msgs : AnalyzeLoop(m)
    \/ \E m \in Msgs : AnalyzeCall(m)
    \/ \E m \in Msgs : AnalyzeSleep(m)
    \/ \E m \in Msgs : HandleResult(m)
    \/ \E m \in Msgs : GenericReply(m)
    \/ \E m \in Msgs : Finish(m)

Spec == Init /\ [][Next]_vars

(* One photo message, handled from the entry of handle_photo to its end.   *)
(* Every external call returns or raises, so every step is taken.          *)
InitHandler ==
    /\ fr = [m \in Msgs |-> IF m = 1 THEN [Blank("download") EXCEPT !.kind = "photo", !.traced = TRUE]
                            ELSE Blank("absent")]
    /\ queue = <<>>
    /\ received = 1

NextHandler ==
    \/ Download(1)
    \/ FormatCheck(1)
    \/ Upload(1)
    \/ AnalyzeLoop(1)
    \/ AnalyzeCall(1)
    \/ AnalyzeSleep(1)
    \/ HandleResult(1)
    \/ GenericReply(1)

SpecHandler == InitHandler /\ [][NextHandler]_vars /\ WF_vars(NextHandler)

(* analyze_image_openai(image_url, retries, delay) called directly, for    *)
(* every retries and delay within the bounds.                              *)
InitAnalyzer ==
    /\ \E u \in Urls \ {""}, retries \in 0..MaxRetries, delay \in 1..MaxDelay :
          fr = [m \in Msgs |->
                  IF m = 1
                  THEN [Blank("an_loop") EXCEPT
                          !.image_url = Some(u), !.retries = retries, !.delay = delay,
                          !.traced = TRUE,
                          !.log = <<<<"analyze", u>>>>]
                  ELSE Blank("absent")]
    /\ queue = <<>>
    /\ received = 1

NextAnalyzer ==
    \/ AnalyzeLoop(1)
    \/ AnalyzeCall(1)
    \/ AnalyzeSleep(1)

SpecAnalyzer == InitAnalyzer /\ [][NextAnalyzer]_vars

-----------------------------------------------------------------------------
(* What the log of a frame shows *)

Events(f, ev) == SelectSeq(f.log, LAMBDA e : e[1] = ev)
Replies(f) == Events(f, "reply")
Calls(f) == Events(f, "call")
Sleeps(f) == Events(f, "sleep")
Posts(f) == Events(f, "post")

(* The calls and sleeps of the analyzer, in order *)
Attempts(f) == SelectSeq(f.log, LAMBDA e : e[1] \in {"call", "sleep"})

Traced == {m \in Msgs : fr[m].traced}
Done(f) == f.pc \in {"returned", "raised"}
InHandler == {m \in Msgs : fr[m].pc \notin {"absent", "queued", "finished",
                                            "returned", "raised"}}
IsFailedCall(e) == e[1] = "call" /\ e[3][1] # "text"
IsTextCall(e) == e[1] = "call" /\ e[3][1] = "text"
FailureTexts == {<<MsgFormatFail>>, <<MsgUploadFail>>, <<MsgAnalysisFail>>, <<MsgGeneric>>}

(* The pixel data of the buffer b does not decode *)
Undecodable(b) == b # "none" /\ ~(OpenOk(b) /\ LoadOk(b))

-----------------------------------------------------------------------------
(* C1: no exception raised in handle_photo (download, format check,        *)
(* upload, analysis, or a reply call, those of the exception handlers      *)
(* included) propagates out of handle_photo: the handler of a photo        *)
(* message never ends by raising.                                          *)
C1_NeverPropagates ==
    \A m \in Msgs : fr[m].kind = "photo" => fr[m].pc # "raised"

-----------------------------------------------------------------------------
(* C2: for every retries, when every call to the model endpoint raises,    *)
(* analyze_image_openai makes exactly retries calls, then returns None,    *)
(* and raises nothing to its caller (it ends by returning).                *)
C2_AllAttemptsFail ==
    \A m \in Traced :
        LET f == fr[m] IN
        /\ f.pc \in {"an_loop", "an_call", "an_sleep", "an_ret"}
        /\ (\A i \in 1..Len(Calls(f)) : Calls(f)[i][3] = <<"raise">>) =>
              /\ Len(Calls(f)) <= f.retries
              /\ f.pc = "an_ret" =>
                    /\ Len(Calls(f)) = f.retries
                    /\ f.analysis_result = None

C2_Witness ==
    \E m \in Traced :
        LET f == fr[m] IN
        /\ f.pc = "an_ret"
        /\ f.retries = MaxRetries
        /\ Len(Calls(f)) = MaxRetries
        /\ \A i \in 1..Len(Calls(f)) : Calls(f)[i][3] = <<"raise">>
        /\ f.analysis_result = None

-----------------------------------------------------------------------------
(* C3: when the first k-1 calls fail and the k-th returns a text           *)
(* (1 <= k <= retries), analyze_image_openai returns that text trimmed,    *)
(* having made exactly k calls and k-1 sleeps.  Every sleep is of the      *)
(* configured delay, directly follows a failed call and is directly        *)
(* followed by the next call; there is no sleep and no call after a call   *)
(* that returned a text, and no sleep after the last attempt.              *)
C3_RetryShape ==
    \A m \in Traced :
        LET f == fr[m]
            a == Attempts(f)
            n == Len(a)
        IN  /\ Len(Calls(f)) <= f.retries
            /\ \A i \in 1..n :
                  /\ a[i][1] = "sleep" =>
                        /\ a[i][2] = f.delay
                        /\ i > 1 /\ IsFailedCall(a[i - 1])
                        /\ i < n => a[i + 1][1] = "call"
                        /\ i = n => f.pc \in {"an_loop", "an_call"}
                  /\ IsTextCall(a[i]) => i = n /\ f.pc = "an_ret"
                  /\ a[i][1] = "call" => a[i][2] = f.image_url[1]
            /\ (n > 0 /\ IsTextCall(a[n])) =>
                  /\ f.analysis_result = Some(Strip(a[n][3][2]))
                  /\ Len(Sleeps(f)) = Len(Calls(f)) - 1
                  /\ \A i \in 1..(Len(Calls(f)) - 1) : IsFailedCall(Calls(f)[i])

C3_Witness ==
    \E m \in Traced :
        LET f == fr[m] IN
        /\ f.pc = "an_ret"
        /\ f.retries = 3
        /\ Len(Calls(f)) = 3
        /\ Calls(f)[1][3] = <<"raise">>
        /\ Calls(f)[2][3] = <<"raise">>
        /\ Calls(f)[3][3] = <<"text", <<" ", "a">>>>
        /\ f.analysis_result = Some(<<"a">>)
        /\ Len(Sleeps(f)) = 2

-----------------------------------------------------------------------------
(* C4: for any downloaded buffer that fails to decode as an image the      *)
(* handler replies with the format-failure text and stops: the uploader is *)
(* not called, nothing is POSTed, the analyzer is not called.              *)
C4_DecodeFailureStops ==
    \A m \in Traced :
        LET f == fr[m] IN
        Undecodable(f.raw) =>
            /\ Events(f, "upload") = <<>>
            /\ Posts(f) = <<>>
            /\ Events(f, "analyze") = <<>>
            /\ Replies(f) # <<>> => Replies(f)[1][2] = <<MsgFormatFail>>
            /\ Done(f) => Replies(f) # <<>>

-----------------------------------------------------------------------------
(* C5: every failure reply names the stage that failed: the format-failure *)
(* text is sent only for a failure to decode the image and every failure   *)
(* to decode gets it, the upload-failure text only when the host was asked *)
(* and gave no URL, the analysis-failure text only when the analyzer       *)
(* returned no text.                                                       *)
C5_StageIdentified ==
    \A m \in Traced :
        LET f == fr[m] IN
        /\ \A i \in 1..Len(Replies(f)) :
              LET text == Replies(f)[i][2] IN
              /\ text = <<MsgFormatFail>> => Undecodable(f.raw)
              /\ text = <<MsgUploadFail>> => Posts(f) # <<>> /\ ~TruthyUrl(f.image_url)
              /\ text = <<MsgAnalysisFail>> =>
                    Events(f, "analyze") # <<>> /\ ~Truthy(f.analysis_result)
        /\ (Undecodable(f.raw) /\ Replies(f) # <<>>) =>
              Replies(f)[1][2] = <<MsgFormatFail>>

-----------------------------------------------------------------------------
(* C6: when download, format check, upload and the model call succeed,     *)
(* then for every text the model returns every reply of the handler is the *)
(* label followed by the trimmed text, and the handler ends with a reply.  *)
C6_SuccessReply ==
    \A m \in Traced :
        LET f == fr[m]
            c == Calls(f)
        IN  (c # <<>> /\ IsTextCall(c[Len(c)])) =>
               /\ \A i \in 1..Len(Replies(f)) :
                     Replies(f)[i][2] = SuccessText(Strip(c[Len(c)][3][2]))
               /\ Done(f) => Replies(f) # <<>>

-----------------------------------------------------------------------------
-----------------------------------------------------------------------------
(* C8: one call of upload_image_to_imgbb issues at most one POST and       *)
(* returns to its caller; it returns data.url exactly when the host        *)
(* answered 200 with that field, and None in every other case.             *)
C8_UploadOnce ==
    \A m \in Traced :
        LET f == fr[m]
            p == Posts(f)
        IN  Events(f, "upload") # <<>> =>
               /\ Len(p) <= 1
               /\ f.pc \notin {"download", "format", "upload"}
               /\ f.image_url =
                     IF /\ Len(p) = 1
                        /\ p[1][2].net = "ok"
                        /\ p[1][2].status = 200
                        /\ p[1][2].json[1] = "url"
                     THEN Some(p[1][2].json[2])
                     ELSE None

C8_Witness ==
    \E m \in Traced :
        /\ Len(Posts(fr[m])) = 1
        /\ Posts(fr[m])[1][2] = [net |-> "ok", status |-> 200,
                                 json |-> <<"url", "https://x/y.jpg">>]
        /\ fr[m].image_url = Some("https://x/y.jpg")

-----------------------------------------------------------------------------
(* The stage an event belongs to *)
StageRank(e) ==
    CASE e[1] = "download" -> 1
      [] e[1] = "format" -> 2
      [] e[1] \in {"upload", "post"} -> 3
      [] e[1] \in {"analyze", "call", "sleep"} -> 4
      [] e[1] = "reply" -> 5

(* The stages run in the order download, format check, upload, analysis,   *)
(* reply; download, format check, upload and analysis are invoked at most  *)
(* once; the uploader is invoked only after the format check succeeded;    *)
(* the analyzer only after the uploader returned a URL, and with that URL; *)
(* no stage is invoked after a reply.                                      *)
StagesInOrder(f) ==
    /\ \A i \in 1..Len(f.log), j \in 1..Len(f.log) :
          i < j => StageRank(f.log[i]) <= StageRank(f.log[j])
    /\ \A ev \in {"download", "format", "upload", "analyze"} : Len(Events(f, ev)) <= 1
    /\ Events(f, "upload") # <<>> => Events(f, "format") = << <<"format", TRUE>> >>
    /\ Events(f, "format") # <<>> => Events(f, "download") = << <<"download", TRUE>> >>
    /\ Events(f, "analyze") # <<>> =>
          /\ TruthyUrl(f.image_url)
          /\ Events(f, "analyze")[1][2] = f.image_url[1]
          /\ Len(Posts(f)) = 1 /\ Posts(f)[1][2].json = <<"url", f.image_url[1]>>
    /\ \A i \in 1..Len(Calls(f)) : Calls(f)[i][2] = f.image_url[1]

(* C9: the stages run in the fixed order, each of them, the reply too,     *)
(* invoked at most once.                                                   *)
C9_EachStageOnce ==
    \A m \in Traced : StagesInOrder(fr[m]) /\ Len(Replies(fr[m])) <= 1

(* C9, amended: as C9, but the reply is invoked at most twice, and a       *)
(* second time only with the generic failure text after the first reply    *)
(* call raised.                                                            *)
C9_StagesOnceReplyTwice ==
    \A m \in Traced :
        LET f == fr[m] IN
        /\ StagesInOrder(f)
        /\ Len(Replies(f)) <= 2
        /\ Len(Replies(f)) = 2 =>
              /\ Replies(f)[1][3] = FALSE
              /\ Replies(f)[2][2] = <<MsgGeneric>>

C9_Witness ==
    \E m \in Traced :
        LET f == fr[m] IN
        /\ Done(f)
        /\ Len(Calls(f)) = 2
        /\ Len(Replies(f)) = 2
        /\ Replies(f)[1][2] = SuccessText(<<"a">>)

-----------------------------------------------------------------------------
(* C10: handle_photo never finishes having issued zero reply calls or more *)
(* than one.                                                               *)
C10_ExactlyOneReply ==
    \A m \in Traced : Done(fr[m]) => Len(Replies(fr[m])) = 1

RepliesOnceOrTwice ==
    \A m \in Traced :
        LET f == fr[m]
            r == Replies(f)
        IN  /\ Len(r) <= 2
            /\ Done(f) => Len(r) >= 1
            /\ Len(r) = 2 => r[1][3] = FALSE /\ r[2][2] = <<MsgGeneric>>
            /\ (Done(f) /\ Len(r) = 1 /\ r[1][2] # <<MsgGeneric>>) => r[1][3] = TRUE
            /\ f.pc = "raised" <=> (r # <<>> /\ r[Len(r)] = <<"reply", <<MsgGeneric>>, FALSE>>)

(* C10, amended: every started handler of a photo message ends, having     *)
(* issued one or two reply calls: two exactly when the first reply call    *)
(* raised, the second being the generic failure reply.                     *)
C10_RepliedOnceOrTwice ==
    /\ []RepliesOnceOrTwice
    /\ \A m \in Msgs :
          (fr[m].pc = "download") ~> (Done(fr[m]) /\ Replies(fr[m]) # <<>>)

C10_Witness ==
    \E m \in Traced :
        LET f == fr[m] IN
        /\ f.pc = "returned"
        /\ Len(Replies(f)) = 2
        /\ Replies(f)[1] = <<"reply", <<MsgUploadFail>>, FALSE>>
        /\ Replies(f)[2] = <<"reply", <<MsgGeneric>>, TRUE>>

====
